---- MODULE Spec2Model ----
(***************************************************************************)
(* State machine of the DrawingApp component                               *)
(* (src/components/DrawingApp.tsx): the action log (actions, redoStack),   *)
(* the layer list, the per-gesture pointer state and the handlers bound to *)
(* the canvas and to the tool / layer panels.                              *)
(*                                                                         *)
(* Every handler runs to completion on the single UI thread and reads the  *)
(* state of the last render.  The component is a client component of a     *)
(* concurrent React root: the updates of a discrete event (mousedown,      *)
(* mouseup, click, change, resize) are rendered, and their effects run,    *)
(* before the next event, so such a handler and its render are one atomic  *)
(* step.  The updates of a continuous event (mousemove, mouseleave) are    *)
(* only queued: they are rendered by a later task, the step render, and    *)
(* other events may be handled before it.  A render caused by a discrete   *)
(* event skips the queued continuous updates, and an update that replaces  *)
(* a value overrides the updates queued before it.  A state updater (the   *)
(* functions passed to setActions / setRedoStack) runs once per dispatch,  *)
(* as in a production build of React.                                      *)
(*                                                                         *)
(* An action object is a JavaScript object: two actions with equal fields  *)
(* are still two objects.  The field id of an action stands for that       *)
(* identity; nextId numbers the objects in the order handlePointerUp       *)
(* allocates them.  The variable event names the handler that ran last, so *)
(* that a handler that changes nothing is still a step.                    *)
(*                                                                         *)
(* The canvas is the sequence of drawing calls it has received since it    *)
(* was last cleared.  The redraw effect (83-92) runs after the handler     *)
(* that gave ctx, actions, layers or canvasDims a new value and before the *)
(* next event, so it is part of that handler's step.  The size stored in   *)
(* canvasDims is not a variable: the drawing calls do not depend on it.    *)
(***************************************************************************)
EXTENDS Integers, Sequences, FiniteSets, TLC

VARIABLES
    ctx,            \* TRUE once the 2D context has been stored (line 50, 76-80)
    tool,           \* line 53
    color,          \* line 54
    brushSize,      \* line 55
    actions,        \* line 56: the committed sequence
    redoStack,      \* line 57: the undone sequence, most recently undone LAST
    isDrawing,      \* line 58, as of the last render
    currentPoints,  \* line 59, as of the last render
    pendingPoints,  \* the points of the updates queued at 148, not rendered yet
    pendingLeave,   \* TRUE while the update queued at 410 is not rendered yet
    startPoint,     \* line 60: a point, or NoPoint for null
    layers,         \* line 63-66
    currentLayer,   \* line 67
    nextId,         \* identity of the next action object allocated at 168 / 177
    event,          \* the DOM event whose handler ran last
    surface         \* the canvas: the drawing calls issued since the last
                    \* clearRect, in order

vars == <<ctx, tool, color, brushSize, actions, redoStack, isDrawing,
          currentPoints, pendingPoints, pendingLeave, startPoint, layers,
          currentLayer, nextId, event, surface>>

----------------------------------------------------------------------------
(* Bounds of the exploration *)

\* number of action objects a run of SpecLog may allocate
MaxActions == 4
\* number of action objects a run of Spec may allocate
MaxLayerActions == 2
\* number of points, rendered or queued, the in-progress buffer may reach
MaxPoints == 2
\* length of the layer list a run may reach
MaxLayers == 3
\* number of action objects a run of SpecGesture may allocate
MaxGestureActions == 1
\* number of preview segments the canvas may hold
MaxPreview == 1
\* number of action objects a run of SpecRender may allocate
MaxRenderActions == 1
\* number of action objects a run of SpecStyle may allocate
MaxStyleActions == 2
\* length of the layer list a run of SpecStack may reach
MaxStackLayers == 4
\* number of action objects a run of SpecStack may allocate
MaxStackActions == 2

----------------------------------------------------------------------------
(* Input domains *)

ToolType == {"brush", "eraser", "rectangle", "circle"}

\* cursor positions delivered by getCursorPosition
Pos == {<<0, 0>>, <<3, 4>>}

\* two of the palette entries of COLORS
Colors == {"#2563eb", "#000000"}

\* two positions of the size slider (min 2, max 48)
Sizes == {12, 2}

\* startPoint === null
NoPoint == <<>>

\* the template literal `Layer ${n}`
LayerName(n) == "Layer " \o ToString(n)

\* the initial value of layers
InitialLayers ==
    << [name |-> "Background", visible |-> TRUE],
       [name |-> "Sketch", visible |-> TRUE] >>

----------------------------------------------------------------------------
(* Pure pieces of the handlers *)

IsStroke(t) == t = "brush" \/ t = "eraser"

IsShape(t) == t = "rectangle" \/ t = "circle"

\* the object literal built at 168-174 / 177-183; id is its object identity
NewAction(t, pts, c, s, l, id) ==
    [type |-> t, points |-> pts, color |-> c, size |-> s, layer |-> l, id |-> id]

\* prev.slice(0, -1)
DropLast(s) == SubSeq(s, 1, Len(s) - 1)

\* handleUndo pushing the last action without removing it from actions
UndoLog_Copies(log) ==
    IF Len(log[1]) = 0
    THEN log
    ELSE << log[1], Append(log[2], log[1][Len(log[1])]) >>

\* handleUndo that resets redoStack when there is nothing to undo
UndoLog_EmptyResetsRedo(log) ==
    IF Len(log[1]) = 0
    THEN << log[1], <<>> >>
    ELSE << DropLast(log[1]), Append(log[2], log[1][Len(log[1])]) >>

\* handleUndo putting the undone action at the front of redoStack
UndoLog_PushesFront(log) ==
    IF Len(log[1]) = 0
    THEN log
    ELSE << DropLast(log[1]), << log[1][Len(log[1])] >> \o log[2] >>

\* handleUndo on the pair <<actions, redoStack>>
UndoLog(log) ==
    IF Len(log[1]) = 0
    THEN log
    ELSE << DropLast(log[1]), Append(log[2], log[1][Len(log[1])]) >>

\* handleRedo taking the oldest entry of redoStack instead of the newest
RedoLog_TakesOldest(log) ==
    IF Len(log[2]) = 0
    THEN log
    ELSE << Append(log[1], log[2][1]), Tail(log[2]) >>

\* handleRedo on the pair <<actions, redoStack>>
RedoLog(log) ==
    IF Len(log[2]) = 0
    THEN log
    ELSE << Append(log[1], log[2][Len(log[2])]), DropLast(log[2]) >>

\* the commit without setRedoStack([])
CommitLog_KeepsRedo(log, action) == << Append(log[1], action), log[2] >>

\* the commit at 185-188 on the pair <<actions, redoStack>>
CommitLog(log, action) == << Append(log[1], action), <<>> >>

\* the filter with the test inverted: a.layer === currentLayer
KeepOtherLayers_Inverted(s, l) ==
    LET Keep(a) == a.layer = l IN SelectSeq(s, Keep)

\* prev.filter((a) => a.layer !== currentLayer)
KeepOtherLayers(s, l) ==
    LET Keep(a) == a.layer # l IN SelectSeq(s, Keep)

\* handleClear without setRedoStack([])
ClearLog_KeepsRedo(log, l) == << KeepOtherLayers(log[1], l), log[2] >>

\* handleClear on the pair <<actions, redoStack>>
ClearLog(log, l) == << KeepOtherLayers(log[1], l), <<>> >>

\* the array built by setLayers in handleAddLayer; indices are 0-based in the
\* source, so the layer of index i is layers[i + 1] here
AddLayer(ls) ==
    Append(ls, [name |-> LayerName(Len(ls) + 1), visible |-> TRUE])

\* setCurrentLayer given the length of the list after the append
NewCurrentLayer_OffByOne(ls) == Len(ls) + 1

\* handleAddLayer forgetting to select the new layer
NewCurrentLayer_Stays(ls) == currentLayer

\* the argument of setCurrentLayer in handleAddLayer: layers.length
NewCurrentLayer(ls) == Len(ls)

\* the map without the i === idx test
ToggleLayer_All(ls, idx) ==
    [i \in 1..Len(ls) |-> [ls[i] EXCEPT !.visible = ~ls[i].visible]]

\* the map hiding layer idx instead of flipping its flag
ToggleLayer_HidesOnly(ls, idx) ==
    [i \in 1..Len(ls) |->
        IF i - 1 = idx THEN [ls[i] EXCEPT !.visible = FALSE] ELSE ls[i]]

\* the array built by setLayers in handleToggleLayer
ToggleLayer(ls, idx) ==
    [i \in 1..Len(ls) |->
        IF i - 1 = idx THEN [ls[i] EXCEPT !.visible = ~ls[i].visible] ELSE ls[i]]

----------------------------------------------------------------------------
(* Rendering *)

\* Math.sqrt on the perfect squares the positions of this module produce
Sqrt(n) == CHOOSE r \in 0..n : r * r = n

\* the radius computed at line 115 without squaring the vertical difference
CircleRadius_SkipsDy(p0, p1) ==
    Sqrt((p1[1] - p0[1]) * (p1[1] - p0[1]))

\* the radius computed at line 115
CircleRadius(p0, p1) ==
    Sqrt((p1[1] - p0[1]) * (p1[1] - p0[1]) + (p1[2] - p0[2]) * (p1[2] - p0[2]))

\* one drawing call as the canvas receives it
DrawCall(op, args, style, width, cap) ==
    [op |-> op, args |-> args, strokeStyle |-> style, lineWidth |-> width,
     lineCap |-> cap]

\* drawAction: the drawing calls of one action, none for a shape whose point
\* list does not have two entries
drawAction(a) ==
    LET style == IF a.type = "eraser" THEN "#fff" ELSE a.color IN
    IF IsStroke(a.type)
    THEN << DrawCall("path", a.points, style, a.size, "round") >>
    ELSE IF a.type = "rectangle" /\ Len(a.points) = 2
    THEN << DrawCall("strokeRect",
                     << a.points[1][1], a.points[1][2],
                        a.points[2][1] - a.points[1][1],
                        a.points[2][2] - a.points[1][2] >>,
                     style, a.size, "round") >>
    ELSE IF a.type = "circle" /\ Len(a.points) = 2
    THEN << DrawCall("arc",
                     << a.points[1][1], a.points[1][2],
                        CircleRadius(a.points[1], a.points[2]) >>,
                     style, a.size, "round") >>
    ELSE << >>

\* actions.filter((a) => a.layer === idx)
OnLayer(acts, idx) ==
    LET Keep(a) == a.layer = idx IN SelectSeq(acts, Keep)

\* the actions the redraw effect hands to drawAction, in order: the layers
\* from index idx on, hidden layers skipped
RECURSIVE ReplayFrom(_, _, _)
ReplayFrom(acts, ls, idx) ==
    IF idx >= Len(ls)
    THEN << >>
    ELSE (IF ls[idx + 1].visible THEN OnLayer(acts, idx) ELSE << >>)
            \o ReplayFrom(acts, ls, idx + 1)

\* the visible actions in commit order, not layer by layer
ReplayOrder_CommitOrder(acts, ls) ==
    LET Shown(a) == ls[a.layer + 1].visible IN SelectSeq(acts, Shown)

\* the actions the redraw effect hands to drawAction, in order (86-91)
ReplayOrder(acts, ls) == ReplayFrom(acts, ls, 0)

\* the drawing calls of a sequence of actions
RECURSIVE DrawAll(_)
DrawAll(acts) ==
    IF acts = << >> THEN << >> ELSE drawAction(Head(acts)) \o DrawAll(Tail(acts))

\* the content of the canvas after the body of the redraw effect (85-91)
Replay(acts, ls) == DrawAll(ReplayOrder(acts, ls))

\* the redraw effect drawing over the old content, without clearRect
RedrawEffect_NoClear(surf, c, acts, ls) ==
    IF ~c THEN surf ELSE surf \o Replay(acts, ls)

\* the redraw effect never running: the canvas keeps its old content
RedrawEffect_Stale(surf, c, acts, ls) == surf

\* the redraw effect (83-92) on a canvas holding surf; c is ctx
RedrawEffect(surf, c, acts, ls) ==
    IF ~c THEN surf ELSE Replay(acts, ls)

\* the preview segment handlePointerMove strokes at 150-158
PreviewSegment(pts, pos, t, c, size) ==
    DrawCall("path",
             << IF Len(pts) > 0 THEN pts[Len(pts)] ELSE pos, pos >>,
             IF t = "eraser" THEN "#fff" ELSE c, size, "butt")

----------------------------------------------------------------------------
(* Initial state: the useState initialisers, ctx still null *)

Init ==
    /\ ctx = FALSE
    /\ tool = "brush"
    /\ color = "#2563eb"
    /\ brushSize = 12
    /\ actions = <<>>
    /\ redoStack = <<>>
    /\ isDrawing = FALSE
    /\ currentPoints = <<>>
    /\ pendingPoints = <<>>
    /\ pendingLeave = FALSE
    /\ startPoint = NoPoint
    /\ layers = InitialLayers
    /\ currentLayer = 1
    /\ nextId = 1
    /\ event = "mount"
    /\ surface = <<>>

----------------------------------------------------------------------------
(* Handlers *)

\* the effect that stores the 2D context once the canvas exists
setCtx ==
    /\ UNCHANGED <<pendingPoints, pendingLeave>>
    /\ ~ctx
    /\ ctx' = TRUE
    /\ event' = "context"
    /\ surface' = RedrawEffect(surface, TRUE, actions, layers)
    /\ UNCHANGED <<tool, color, brushSize, actions, redoStack, isDrawing,
                   currentPoints, startPoint, layers, currentLayer, nextId>>

setTool(t) ==
    /\ UNCHANGED <<pendingPoints, pendingLeave>>
    /\ tool' = t
    /\ event' = "tool"
    /\ UNCHANGED surface
    /\ UNCHANGED <<ctx, color, brushSize, actions, redoStack, isDrawing,
                   currentPoints, startPoint, layers, currentLayer, nextId>>

setColor(c) ==
    /\ UNCHANGED <<pendingPoints, pendingLeave>>
    /\ color' = c
    /\ event' = "color"
    /\ UNCHANGED surface
    /\ UNCHANGED <<ctx, tool, brushSize, actions, redoStack, isDrawing,
                   currentPoints, startPoint, layers, currentLayer, nextId>>

setBrushSize(s) ==
    /\ UNCHANGED <<pendingPoints, pendingLeave>>
    /\ brushSize' = s
    /\ event' = "size"
    /\ UNCHANGED surface
    /\ UNCHANGED <<ctx, tool, color, actions, redoStack, isDrawing,
                   currentPoints, startPoint, layers, currentLayer, nextId>>

handlePointerDown(pos) ==
    /\ event' = "down"
    /\ UNCHANGED surface
    /\ IF ~ctx
       THEN UNCHANGED <<isDrawing, pendingLeave, startPoint, currentPoints,
                        pendingPoints>>
       ELSE /\ isDrawing' = TRUE
            /\ pendingLeave' = FALSE
            /\ startPoint' = pos
            /\ IF IsStroke(tool)
               THEN currentPoints' = <<pos>> /\ pendingPoints' = <<>>
               ELSE UNCHANGED <<currentPoints, pendingPoints>>
    /\ UNCHANGED <<ctx, tool, color, brushSize, actions, redoStack,
                   layers, currentLayer, nextId>>

\* setMouse (146) writes no variable of this module
handlePointerMove(pos) ==
    /\ event' = "move"
    /\ pendingPoints' = IF ctx /\ isDrawing /\ IsStroke(tool)
                        THEN Append(pendingPoints, pos)
                        ELSE pendingPoints
    /\ surface' = IF ctx /\ isDrawing /\ IsStroke(tool)
                  THEN Append(surface,
                              PreviewSegment(currentPoints, pos, tool, color,
                                             brushSize))
                  ELSE surface
    /\ UNCHANGED <<ctx, tool, color, brushSize, actions, redoStack, isDrawing,
                   currentPoints, pendingLeave, startPoint, layers,
                   currentLayer, nextId>>

\* the stroke built from currentPoints alone, without the release point
PointerUpAction_DropsRelease(pos) ==
    IF IsStroke(tool)
    THEN NewAction(tool, currentPoints, color, brushSize, currentLayer, nextId)
    ELSE IF IsShape(tool) /\ startPoint # NoPoint
         THEN NewAction(tool, <<startPoint, pos>>, color, brushSize,
                        currentLayer, nextId)
         ELSE NoPoint

\* the action tagged with the topmost layer instead of the current one
PointerUpAction_TopLayer(pos) ==
    IF IsStroke(tool)
    THEN NewAction(tool, Append(currentPoints, pos), color, brushSize,
                   Len(layers) - 1, nextId)
    ELSE IF IsShape(tool) /\ startPoint # NoPoint
         THEN NewAction(tool, <<startPoint, pos>>, color, brushSize,
                        Len(layers) - 1, nextId)
         ELSE NoPoint

\* the action handlePointerUp builds at 166-184, or NoPoint for null
PointerUpAction(pos) ==
    IF IsStroke(tool)
    THEN NewAction(tool, Append(currentPoints, pos), color, brushSize,
                   currentLayer, nextId)
    ELSE IF IsShape(tool) /\ startPoint # NoPoint
         THEN NewAction(tool, <<startPoint, pos>>, color, brushSize,
                        currentLayer, nextId)
         ELSE NoPoint

handlePointerUp(pos) ==
    /\ event' = "up"
    /\ IF ~ctx
       THEN UNCHANGED <<isDrawing, pendingLeave, currentPoints,
                        pendingPoints, startPoint, actions, redoStack,
                        nextId, surface>>
       ELSE LET action == PointerUpAction(pos) IN
            /\ isDrawing' = FALSE
            /\ pendingLeave' = FALSE
            /\ IF IsStroke(tool)
               THEN currentPoints' = <<>> /\ pendingPoints' = <<>>
               ELSE UNCHANGED <<currentPoints, pendingPoints>>
            /\ IF action # NoPoint
               THEN /\ actions' = CommitLog(<<actions, redoStack>>, action)[1]
                    /\ redoStack' = CommitLog(<<actions, redoStack>>, action)[2]
                    /\ nextId' = nextId + 1
                    /\ surface' = RedrawEffect(surface, ctx, actions', layers)
               ELSE UNCHANGED <<actions, redoStack, nextId, surface>>
            /\ startPoint' = NoPoint
    /\ UNCHANGED <<ctx, tool, color, brushSize, layers, currentLayer>>

\* onMouseLeave={() => setIsDrawing(false)}: the update is queued; on a
\* rendered false there is nothing to change
onMouseLeave ==
    /\ pendingLeave' = isDrawing
    /\ event' = "leave"
    /\ UNCHANGED surface
    /\ UNCHANGED <<ctx, tool, color, brushSize, actions, redoStack, isDrawing,
                   currentPoints, pendingPoints, startPoint, layers,
                   currentLayer, nextId>>

\* the render of the updates queued by mousemove (148) and mouseleave (410):
\* none of ctx, actions, layers, canvasDims changes, so no effect runs
render ==
    /\ pendingPoints # <<>> \/ pendingLeave
    /\ currentPoints' = currentPoints \o pendingPoints
    /\ pendingPoints' = <<>>
    /\ isDrawing' = (isDrawing /\ ~pendingLeave)
    /\ pendingLeave' = FALSE
    /\ event' = "render"
    /\ UNCHANGED surface
    /\ UNCHANGED <<ctx, tool, color, brushSize, actions, redoStack,
                   startPoint, layers, currentLayer, nextId>>

\* the resize listener (35-43), registered by the effects of the mount: a
\* new canvasDims object re-runs the effect at 76-80, which stores the same
\* context, and the redraw effect
updateDims ==
    /\ ctx
    /\ event' = "resize"
    /\ surface' = RedrawEffect(surface, ctx, actions, layers)
    /\ UNCHANGED <<tool, color, brushSize, actions, redoStack, isDrawing,
                   currentPoints, pendingPoints, pendingLeave, startPoint,
                   layers, currentLayer, nextId, ctx>>

handleUndo ==
    /\ UNCHANGED <<pendingPoints, pendingLeave>>
    /\ actions' = UndoLog(<<actions, redoStack>>)[1]
    /\ redoStack' = UndoLog(<<actions, redoStack>>)[2]
    /\ event' = "undo"
    /\ surface' = IF Len(actions) = 0
                  THEN surface
                  ELSE RedrawEffect(surface, ctx, actions', layers)
    /\ UNCHANGED <<ctx, tool, color, brushSize, isDrawing, currentPoints,
                   startPoint, layers, currentLayer, nextId>>

handleRedo ==
    /\ UNCHANGED <<pendingPoints, pendingLeave>>
    /\ actions' = RedoLog(<<actions, redoStack>>)[1]
    /\ redoStack' = RedoLog(<<actions, redoStack>>)[2]
    /\ event' = "redo"
    /\ surface' = IF Len(redoStack) = 0
                  THEN surface
                  ELSE RedrawEffect(surface, ctx, actions', layers)
    /\ UNCHANGED <<ctx, tool, color, brushSize, isDrawing, currentPoints,
                   startPoint, layers, currentLayer, nextId>>

handleClear ==
    /\ UNCHANGED <<pendingPoints, pendingLeave>>
    /\ actions' = ClearLog(<<actions, redoStack>>, currentLayer)[1]
    /\ redoStack' = ClearLog(<<actions, redoStack>>, currentLayer)[2]
    /\ event' = "clear"
    /\ surface' = RedrawEffect(surface, ctx, actions', layers)
    /\ UNCHANGED <<ctx, tool, color, brushSize, isDrawing, currentPoints,
                   startPoint, layers, currentLayer, nextId>>

handleAddLayer ==
    /\ UNCHANGED <<pendingPoints, pendingLeave>>
    /\ layers' = AddLayer(layers)
    /\ currentLayer' = NewCurrentLayer(layers)
    /\ event' = "addLayer"
    /\ surface' = RedrawEffect(surface, ctx, actions, layers')
    /\ UNCHANGED <<ctx, tool, color, brushSize, actions, redoStack, isDrawing,
                   currentPoints, startPoint, nextId>>

handleToggleLayer(idx) ==
    /\ UNCHANGED <<pendingPoints, pendingLeave>>
    /\ layers' = ToggleLayer(layers, idx)
    /\ event' = "toggle"
    /\ surface' = RedrawEffect(surface, ctx, actions, layers')
    /\ UNCHANGED <<ctx, tool, color, brushSize, actions, redoStack, isDrawing,
                   currentPoints, startPoint, currentLayer, nextId>>

\* onClick={() => setCurrentLayer(idx)} of a row of the layers panel
setCurrentLayer(idx) ==
    /\ UNCHANGED <<pendingPoints, pendingLeave>>
    /\ currentLayer' = idx
    /\ event' = "select"
    /\ UNCHANGED surface
    /\ UNCHANGED <<ctx, tool, color, brushSize, actions, redoStack, isDrawing,
                   currentPoints, startPoint, layers, nextId>>

(***************************************************************************)
(* Specifications.  The handlers above are unbounded; each specification   *)
(* bounds the run in its own next-state relation and draws the inputs of   *)
(* the handlers from the sets below.                                       *)
(*                                                                         *)
(* Spec explores the action log together with the layer list: gestures    *)
(* are pressed and released at one position with the initial tool, and     *)
(* every control of the log and of the layers panel is used, over at most  *)
(* MaxLayers layers and MaxLayerActions action objects.                    *)
(*                                                                         *)
(* SpecLog explores a longer log, of MaxActions action objects, over the   *)
(* two initial layers: commit, undo, redo, clear and layer selection.      *)
(*                                                                         *)
(* SpecGesture explores the pointer gesture: every tool, presses and       *)
(* releases at every position of Pos, moves, mouse-leave, the render of    *)
(* their queued updates, undo and redo, on the initial layer, with at most *)
(* MaxGestureActions action objects.                                       *)
(* The pointer is dragged only while the run may still commit, and while   *)
(* the canvas holds fewer than MaxPreview preview segments.                *)
(***************************************************************************)

\* the position at which the gestures of Spec and SpecLog are pressed and
\* released
LogPos == {<<0, 0>>}

\* the position the pointer is dragged through in SpecGesture
MovePos == {<<3, 4>>}

\* the tools picked in runs of SpecStyle: one stroke tool, one shape tool
StyleTools == {"brush", "rectangle"}

\* the number of preview segments on the canvas
PreviewCount == Cardinality({k \in 1..Len(surface) : surface[k].lineCap = "butt"})

Next ==
    \/ setCtx
    \/ \E p \in LogPos : handlePointerDown(p)
    \/ \E p \in LogPos : nextId <= MaxLayerActions /\ handlePointerUp(p)
    \/ handleUndo
    \/ handleRedo
    \/ handleClear
    \/ Len(layers) < MaxLayers /\ handleAddLayer
    \/ \E idx \in 0..(Len(layers) - 1) : handleToggleLayer(idx)
    \/ \E idx \in 0..(Len(layers) - 1) : setCurrentLayer(idx)

Spec == Init /\ [][Next]_vars

NextLog ==
    \/ setCtx
    \/ \E p \in LogPos : handlePointerDown(p)
    \/ \E p \in LogPos : nextId <= MaxActions /\ handlePointerUp(p)
    \/ handleUndo
    \/ handleRedo
    \/ handleClear
    \/ \E idx \in 0..(Len(layers) - 1) : setCurrentLayer(idx)

SpecLog == Init /\ [][NextLog]_vars

NextGesture ==
    \/ setCtx
    \/ \E t \in ToolType : setTool(t)
    \/ \E p \in Pos : handlePointerDown(p)
    \/ \E p \in MovePos :
          /\ Len(currentPoints) + Len(pendingPoints) < MaxPoints
          /\ PreviewCount < MaxPreview
          /\ nextId <= MaxGestureActions
          /\ handlePointerMove(p)
    \/ \E p \in Pos : nextId <= MaxGestureActions /\ handlePointerUp(p)
    \/ onMouseLeave
    \/ render
    \/ handleUndo
    \/ handleRedo

SpecGesture == Init /\ [][NextGesture]_vars

(* The canvas: brush gestures with preview segments, interleaved with      *)
(* every operation that triggers a redraw: commit, undo, redo, clear,      *)
(* add-layer, toggle and the window resize.  A run allocates at most       *)
(* MaxRenderActions actions, adds layers up to MaxLayers, and the canvas   *)
(* holds at most MaxPreview preview segments at a time.                    *)
NextRender ==
    \/ setCtx
    \/ \E p \in LogPos : handlePointerDown(p)
    \/ \E p \in MovePos : /\ Len(currentPoints) + Len(pendingPoints) < MaxPoints
                          /\ PreviewCount < MaxPreview
                          /\ handlePointerMove(p)
    \/ \E p \in LogPos : nextId <= MaxRenderActions /\ handlePointerUp(p)
    \/ onMouseLeave
    \/ render
    \/ updateDims
    \/ handleUndo
    \/ handleRedo
    \/ handleClear
    \/ Len(layers) < MaxLayers /\ handleAddLayer
    \/ \E idx \in 0..(Len(layers) - 1) : handleToggleLayer(idx)

SpecRender == Init /\ [][NextRender]_vars

(* The style of a gesture: tool, colour, size and current layer are picked *)
(* before and during the gestures drawn on an empty log, on the two        *)
(* initial layers; the pointer, undo, redo and clear are used at any time, *)
(* on an empty or a non-empty log.  A run allocates at most                *)
(* MaxStyleActions actions.                                                *)
NextStyle ==
    \/ setCtx
    \/ \E t \in StyleTools : actions = <<>> /\ redoStack = <<>> /\ setTool(t)
    \/ \E c \in Colors : actions = <<>> /\ redoStack = <<>> /\ setColor(c)
    \/ \E z \in Sizes : actions = <<>> /\ redoStack = <<>> /\ setBrushSize(z)
    \/ \E idx \in 0..(Len(layers) - 1) :
          actions = <<>> /\ redoStack = <<>> /\ setCurrentLayer(idx)
    \/ \E p \in LogPos : handlePointerDown(p)
    \/ \E p \in MovePos : /\ Len(currentPoints) + Len(pendingPoints) < MaxPoints
                          /\ PreviewCount < MaxPreview
                          /\ handlePointerMove(p)
    \/ \E p \in LogPos : nextId <= MaxStyleActions /\ handlePointerUp(p)
    \/ onMouseLeave
    \/ render
    \/ handleUndo
    \/ handleRedo
    \/ handleClear

SpecStyle == Init /\ [][NextStyle]_vars

(* The layer stack: layers are added, selected and drawn on.  A run adds   *)
(* layers up to MaxStackLayers and allocates at most MaxStackActions       *)
(* actions.                                                                *)
NextStack ==
    \/ setCtx
    \/ Len(layers) < MaxStackLayers /\ handleAddLayer
    \/ \E idx \in 0..(Len(layers) - 1) : setCurrentLayer(idx)
    \/ \E p \in LogPos : handlePointerDown(p)
    \/ \E p \in LogPos : nextId <= MaxStackActions /\ handlePointerUp(p)

SpecStack == Init /\ [][NextStack]_vars

----------------------------------------------------------------------------
TypeOK ==
    /\ ctx \in BOOLEAN
    /\ tool \in ToolType
    /\ isDrawing \in BOOLEAN
    /\ pendingLeave \in BOOLEAN
    /\ pendingLeave => isDrawing
    /\ nextId \in Nat \ {0}

----------------------------------------------------------------------------
(* Vocabulary of the properties *)

\* the log as the pair the log operators work on
Log == <<actions, redoStack>>

\* the identities of the action objects held by a sequence
Ids(s) == {s[k].id : k \in 1..Len(s)}

\* the identities held by the log in the current state / in the next state
Held == Ids(actions) \cup Ids(redoStack)

HeldNext == Ids(actions') \cup Ids(redoStack')

\* an action object that has left both sequences is in neither afterwards
NeverReturns ==
    \A id \in 1..(nextId - 1) : id \notin Held => id \notin HeldNext

\* a redo issued in the next state changes nothing
RedoIsNoOpNext ==
    RedoLog(<<actions', redoStack'>>) = <<actions', redoStack'>>

\* m undos in a row, then k redos in a row, on a log
RECURSIVE UndoTimes(_, _)
UndoTimes(log, m) == IF m = 0 THEN log ELSE UndoTimes(UndoLog(log), m - 1)

RECURSIVE RedoTimes(_, _)
RedoTimes(log, k) == IF k = 0 THEN log ELSE RedoTimes(RedoLog(log), k - 1)

----------------------------------------------------------------------------
(* C1: from a committed sequence of N actions, M undos (M <= N) followed   *)
(* by K redos (K <= M) leave as committed sequence the first N-M+K actions *)
(* of the original sequence, in the original order.                        *)
C1_UndoRedoPrefix ==
    \A m \in 0..Len(actions) : \A k \in 0..m :
        RedoTimes(UndoTimes(Log, m), k)[1]
            = SubSeq(actions, 1, Len(actions) - m + k)

\* three commits, two undos and one redo have happened
C1_Witness ==
    /\ event = "redo"
    /\ nextId = 4
    /\ Len(actions) = 2
    /\ Len(redoStack) = 1

(* C2: whenever handlePointerUp commits a new action, redoStack becomes    *)
(* empty, a redo issued right afterwards is a no-op, and an action that    *)
(* has left the log never comes back to it.                                *)
C2_CommitDiscardsUndone ==
    [][ /\ nextId' # nextId => redoStack' = <<>> /\ RedoIsNoOpNext
        /\ NeverReturns ]_vars

\* a commit has just discarded at least one undone action
C2_Witness ==
    /\ event = "up"
    /\ actions # <<>>
    /\ actions[Len(actions)].id = nextId - 1
    /\ redoStack = <<>>
    /\ Len(actions) < nextId - 1

(* C3 (as claimed): a pointer-up appends an action to committed only if a  *)
(* gesture is in progress, that is only if isDrawing holds when the        *)
(* pointer is released.                                                    *)
C3_CommitOnlyInGesture ==
    [][ nextId' # nextId => isDrawing ]_vars

\* new is old with some entries left out, the others in their order
IsOrderedSubSeq(new, old) ==
    \E f \in [1..Len(new) -> 1..Len(old)] :
        /\ \A i \in 1..Len(new) : old[f[i]] = new[i]
        /\ \A i, j \in 1..Len(new) : i < j => f[i] < f[j]

(* C4: handleClear removes from committed exactly the actions of the       *)
(* current layer; every other committed action stays, in the same relative *)
(* order.                                                                  *)
C4_ClearRemovesExactlyLayer ==
    [][ event' = "clear" =>
          /\ \A k \in 1..Len(actions') : actions'[k].layer # currentLayer
          /\ \A k \in 1..Len(actions) :
                actions[k].layer # currentLayer
                    => \E j \in 1..Len(actions') : actions'[j] = actions[k]
          /\ IsOrderedSubSeq(actions', actions) ]_vars

\* a clear has left the first and the third action and nothing of its layer
C4_Witness ==
    /\ event = "clear"
    /\ Len(actions) = 2
    /\ actions[1].id = 1
    /\ actions[2].id = 3
    /\ \A k \in 1..Len(actions) : actions[k].layer # currentLayer

\* the actions of layer l held by either sequence
IdsOnLayer(l) ==
    {actions[k].id : k \in {i \in 1..Len(actions) : actions[i].layer = l}}
        \cup
    {redoStack[k].id : k \in {i \in 1..Len(redoStack) : redoStack[i].layer = l}}

(* C5: handleClear also empties redoStack, whatever the layers of its      *)
(* entries: a redo issued right afterwards is a no-op, every action of the *)
(* cleared layer has left the log, and an action that has left the log     *)
(* never comes back to it.                                                 *)
C5_ClearDiscardsUndone ==
    [][ /\ event' = "clear" =>
              /\ redoStack' = <<>>
              /\ RedoIsNoOpNext
              /\ IdsOnLayer(currentLayer) \cap HeldNext = {}
        /\ NeverReturns ]_vars

\* a clear has run after three commits and has left one committed action
\* and nothing to redo
C5_Witness ==
    /\ event = "clear"
    /\ nextId = 4
    /\ Len(actions) = 1
    /\ redoStack = <<>>

(* C6: no action object is held twice: the identities in committed and     *)
(* undone are pairwise distinct, within each sequence and across them.     *)
C6_ExactlyOneSequence ==
    /\ Ids(actions) \cap Ids(redoStack) = {}
    /\ Cardinality(Held) = Len(actions) + Len(redoStack)

\* both sequences hold actions
C6_Witness ==
    /\ Len(actions) = 1
    /\ Len(redoStack) = 2

(* C7: undo with nothing committed and redo with nothing undone change     *)
(* neither committed, undone, the layer list nor the current layer.        *)
C7_EmptyUndoRedoNoOp ==
    [][ \/ event' = "undo" /\ actions = <<>>
        \/ event' = "redo" /\ redoStack = <<>>
        => UNCHANGED <<actions, redoStack, layers, currentLayer>> ]_vars

\* an undo has run on a log that had been used and was empty again
C7_Witness ==
    /\ event = "undo"
    /\ actions = <<>>
    /\ redoStack = <<>>
    /\ nextId > 1

\* the point list of an action fits its kind
WellFormed(a) ==
    /\ a.type \in ToolType
    /\ IsShape(a.type) => Len(a.points) = 2
    /\ IsStroke(a.type) => Len(a.points) >= 1
    /\ \A k \in 1..Len(a.points) : a.points[k] \in Pos

(* C8: every action held by committed or undone has exactly two points if  *)
(* it is a rectangle or a circle and at least one point if it is a brush   *)
(* or eraser stroke, and every point is a cursor position.                 *)
C8_PointsWellFormed ==
    /\ \A k \in 1..Len(actions) : WellFormed(actions[k])
    /\ \A k \in 1..Len(redoStack) : WellFormed(redoStack[k])

\* a circle from (0,0) to (3,4) has been committed by the release of a
\* gesture whose press, with a stroke tool, had filled currentPoints
C8_Witness ==
    /\ event = "up"
    /\ tool = "circle"
    /\ currentPoints = << <<0, 0>> >>
    /\ Len(actions) = 1
    /\ actions[1].type = "circle"
    /\ actions[1].points = << <<0, 0>>, <<3, 4>> >>

\* the indices of the layer list, 0-based as in the source
LayerIndex == 0..(Len(layers) - 1)

(* C9: the current layer and the layer of every action in committed and    *)
(* undone are indices of the layer list.                                   *)
C9_LayerIndicesValid ==
    /\ currentLayer \in LayerIndex
    /\ \A k \in 1..Len(actions) : actions[k].layer \in LayerIndex
    /\ \A k \in 1..Len(redoStack) : redoStack[k].layer \in LayerIndex

\* actions of an added layer are held by both sequences
C9_Witness ==
    /\ Len(layers) = 3
    /\ currentLayer = 2
    /\ \E k \in 1..Len(actions) : actions[k].layer = 2
    /\ \E k \in 1..Len(redoStack) : redoStack[k].layer = 2

(* C10: no step removes, reorders or renames a layer; add-layer appends    *)
(* one visible layer at the end; toggle-visibility flips the visible flag  *)
(* of one layer and leaves the other layers, committed, undone and the     *)
(* current layer unchanged; no other step changes the layer list.          *)
C10_LayersAppendOnly ==
    [][ /\ Len(layers') >= Len(layers)
        /\ \A i \in 1..Len(layers) : layers'[i].name = layers[i].name
        /\ event' = "addLayer" =>
              /\ Len(layers') = Len(layers) + 1
              /\ SubSeq(layers', 1, Len(layers)) = layers
              /\ layers'[Len(layers')].visible
        /\ event' = "toggle" =>
              /\ Len(layers') = Len(layers)
              /\ \E idx \in LayerIndex :
                    /\ layers'[idx + 1].visible = ~layers[idx + 1].visible
                    /\ \A i \in 1..Len(layers) :
                          i # idx + 1 => layers'[i] = layers[i]
              /\ UNCHANGED <<actions, redoStack, currentLayer>>
        /\ event' \notin {"addLayer", "toggle"} => layers' = layers ]_vars

\* the added layer has been hidden while the log holds actions
C10_Witness ==
    /\ event = "toggle"
    /\ Len(layers) = 3
    /\ ~layers[3].visible
    /\ layers[1].visible
    /\ actions # <<>>

(* C11: hiding a layer and showing it again restores the layer list, and   *)
(* the canvas after the two redraws is the canvas as it was; the log is    *)
(* not part of what a toggle writes.                                       *)
C11_HideShowRestores ==
    \A idx \in LayerIndex :
        LET hidden == ToggleLayer(layers, idx)
            shown == ToggleLayer(hidden, idx)
        IN  /\ shown = layers
            /\ Replay(actions, shown) = Replay(actions, layers)
            /\ RedrawEffect(RedrawEffect(surface, ctx, actions, hidden),
                            ctx, actions, shown) = surface

\* a hidden layer holding a drawn action has just been shown again
C11_Witness ==
    /\ event = "toggle"
    /\ \A i \in 1..Len(layers) : layers[i].visible
    /\ actions # <<>>
    /\ surface # <<>>

\* the actions of acts drawn on a visible layer of ls
VisibleActions(acts, ls) ==
    {acts[k] : k \in {i \in 1..Len(acts) : ls[acts[i].layer + 1].visible}}

(* C12: a full replay draws the committed actions of the visible layers,   *)
(* each once, layer by layer in ascending index and in commit order within *)
(* a layer; nothing of a hidden layer or of undone is drawn.               *)
C12_ReplayVisibleByLayer ==
    LET R == ReplayOrder(actions, layers) IN
    /\ {R[k] : k \in 1..Len(R)} = VisibleActions(actions, layers)
    /\ Len(R) = Cardinality(VisibleActions(actions, layers))
    /\ \A k, m \in 1..Len(R) :
          k < m => \/ R[k].layer < R[m].layer
                   \/ R[k].layer = R[m].layer /\ R[k].id < R[m].id
    /\ Ids(R) \cap Ids(redoStack) = {}
    /\ ctx => surface = DrawAll(R)

\* the action committed first is drawn last, on a higher layer, and a hidden
\* layer exists
C12_Witness ==
    /\ ctx
    /\ Len(actions) = 2
    /\ actions[1].layer > actions[2].layer
    /\ Len(surface) = 2
    /\ \E i \in 1..Len(layers) : ~layers[i].visible

(* C13: rendering is deterministic and idempotent: a redraw of the canvas   *)
(* as it is gives what a redraw of an empty canvas gives, and a second     *)
(* redraw changes nothing; the result depends on (actions, layers) only.   *)
C13_RedrawIgnoresOldContent ==
    LET once == RedrawEffect(surface, ctx, actions, layers) IN
    /\ once = RedrawEffect(<< >>, ctx, actions, layers)
    /\ RedrawEffect(once, ctx, actions, layers) = once

\* a preview segment is left on a canvas that also shows a committed action
C13_Witness ==
    /\ ctx
    /\ PreviewCount > 0
    /\ Replay(actions, layers) # << >>
    /\ surface # Replay(actions, layers)

\* the canvas holds the replay of (acts, ls) followed by preview segments only
ReplayThenPreviews(surf, acts, ls) ==
    LET n == Len(Replay(acts, ls)) IN
    /\ Len(surf) >= n
    /\ SubSeq(surf, 1, n) = Replay(acts, ls)
    /\ \A k \in (n + 1)..Len(surf) : surf[k].lineCap = "butt"

\* a step that changes the log or the layer list ends with the canvas
\* holding exactly the replay of the new (actions, layers)
MutationRedraws ==
    (actions' # actions \/ redoStack' # redoStack \/ layers' # layers)
        => surface' = Replay(actions', layers')

\* the canvas shows the replay of (actions, layers): exactly so when no
\* gesture is in progress, under the live preview of the gesture otherwise
SurfaceReflectsReplay ==
    /\ ReplayThenPreviews(surface, actions, layers)
    /\ (~isDrawing /\ pendingPoints = << >>)
          => surface = Replay(actions, layers)

(* C14: every change of the log (commit, undo, redo, clear) or of the      *)
(* layer list (toggle, add-layer) is followed within its step by a full    *)
(* redraw, so that after every step the canvas reflects the replay of the  *)
(* current (actions, layers).                                              *)
C14_MutationRedraws ==
    [][MutationRedraws /\ SurfaceReflectsReplay']_vars

\* every step that changes the log or the layer list redraws the canvas
C14_RedrawOnMutation == [][MutationRedraws]_vars

(* C16: whenever no gesture is in progress and every queued update has     *)
(* been rendered, the canvas holds exactly the replay of (actions,         *)
(* layers), with no preview segment left on it.                            *)
C16_NoPreviewAfterGesture ==
    (ctx /\ ~isDrawing /\ pendingPoints = << >>)
        => surface = Replay(actions, layers)

\* the square of the distance between two points
Dist2(p0, p1) ==
    (p1[1] - p0[1]) * (p1[1] - p0[1]) + (p1[2] - p0[2]) * (p1[2] - p0[2])

\* the circle action drawAction is given for a drag from p0 to p1
CircleOf(p0, p1) == NewAction("circle", << p0, p1 >>, "#2563eb", 12, 1, 0)

(* C15: a circle is drawn as an arc centred at its first point whose       *)
(* radius is the Euclidean distance between its two points: radius 5 at    *)
(* (50,50) for (50,50),(53,54), and the same for the mirrored second point *)
(* (47,46); every committed circle is on the canvas as that arc.           *)
C15_CircleRadiusEuclidean ==
    /\ drawAction(CircleOf(<<50, 50>>, <<53, 54>>))[1].args = <<50, 50, 5>>
    /\ drawAction(CircleOf(<<50, 50>>, <<47, 46>>))[1].args = <<50, 50, 5>>
    /\ \A k \in 1..Len(actions) :
          actions[k].type = "circle" =>
              LET a == actions[k]
                  call == drawAction(a)[1]
              IN  /\ Len(a.points) = 2
                  /\ Len(drawAction(a)) = 1
                  /\ call.op = "arc"
                  /\ call.args[1] = a.points[1][1]
                  /\ call.args[2] = a.points[1][2]
                  /\ call.args[3] >= 0
                  /\ call.args[3] * call.args[3] = Dist2(a.points[1], a.points[2])
                  /\ \E j \in 1..Len(surface) : surface[j] = call

\* a circle dragged from (3,4) back to (0,0) is on the canvas with radius 5
C15_Witness ==
    /\ actions # << >>
    /\ actions[1].type = "circle"
    /\ actions[1].points = << <<3, 4>>, <<0, 0>> >>
    /\ \E j \in 1..Len(surface) :
          /\ surface[j].op = "arc"
          /\ surface[j].args = <<3, 4, 5>>

(* C17: once a gesture has ended, by a pointer-up or by a pointer-leave    *)
(* whose update has been rendered, the in-progress point buffer and the    *)
(* start point are empty, so a committed stroke never holds a point of an  *)
(* earlier gesture.                                                        *)
C17_BuffersEmptyAfterGesture ==
    (~isDrawing /\ pendingPoints = << >>)
        => currentPoints = << >> /\ startPoint = NoPoint

(* C18: pointer-down, pointer-move, pointer-leave and the render of their  *)
(* queued updates change none of actions, redoStack, layers and            *)
(* currentLayer; an action object that the log did not hold enters it only *)
(* in a pointer-up, and actions grows only in a pointer-up or in a redo    *)
(* that takes its action from redoStack; a pointer-up writes neither       *)
(* layers nor currentLayer and either leaves the log alone or appends      *)
(* exactly one new action to actions, tagged with the tool, colour, size   *)
(* and current layer selected at the release.                              *)
C18_OnlyPointerUpCommits ==
    [][/\ event' \in {"down", "move", "leave", "render"}
            => UNCHANGED <<actions, redoStack, layers, currentLayer>>
       /\ ~(HeldNext \subseteq Held) => event' = "up"
       /\ ~(Ids(actions') \subseteq Ids(actions))
            => \/ event' = "up"
               \/ /\ event' = "redo"
                  /\ Ids(actions') \subseteq Ids(actions) \cup Ids(redoStack)
       /\ event' = "up"
            => /\ UNCHANGED <<layers, currentLayer>>
               /\ \/ UNCHANGED <<actions, redoStack>>
                  \/ /\ Len(actions') = Len(actions) + 1
                     /\ DropLast(actions') = actions
                     /\ actions'[Len(actions')].id \notin Held
                     /\ actions'[Len(actions')].type = tool
                     /\ actions'[Len(actions')].color = color
                     /\ actions'[Len(actions')].size = brushSize
                     /\ actions'[Len(actions')].layer = currentLayer]_vars

\* a rectangle has been appended to a non-empty log, on the lower layer,
\* after tool, colour, size and current layer were all changed from their
\* initial values
C18_Witness ==
    /\ event = "up"
    /\ Len(actions) = 2
    /\ actions[2].type = "rectangle"
    /\ actions[2].color = "#000000"
    /\ actions[2].size = 2
    /\ actions[2].layer = 0

(* C19: undo and redo are inverses on the whole log: a redo right after an *)
(* undo, and an undo right after a redo, give back the log as it was; each *)
(* keeps the total number of actions in actions and redoStack; both act on *)
(* the last entry whatever its layer, the current layer and the visibility *)
(* flags, and write neither layers nor currentLayer.                       *)
C19_UndoRedoInverse ==
    [][/\ event' = "undo"
            => /\ Len(actions') + Len(redoStack') = Len(actions) + Len(redoStack)
               /\ actions # << >> => /\ Log' # Log
                                     /\ RedoLog(Log') = Log
               /\ UNCHANGED <<layers, currentLayer>>
       /\ event' = "redo"
            => /\ Len(actions') + Len(redoStack') = Len(actions) + Len(redoStack)
               /\ redoStack # << >> => /\ Log' # Log
                                       /\ UndoLog(Log') = Log
               /\ UNCHANGED <<layers, currentLayer>>]_vars

\* the action just undone sits on a hidden layer that is not the current one,
\* above an older undone action
C19_Witness ==
    /\ event = "undo"
    /\ Len(redoStack) = 2
    /\ redoStack[2].layer # currentLayer
    /\ ~layers[redoStack[2].layer + 1].visible

(* C20: after add-layer the new layer is the current layer, the last index *)
(* of the layer list, also when add-layer is issued several times in a     *)
(* row, and the next action committed is tagged with the new layer.        *)
C20_AddLayerSelectsNew ==
    [][/\ event' = "addLayer"
            => /\ Len(layers') = Len(layers) + 1
               /\ currentLayer' = Len(layers') - 1
       /\ (event = "addLayer" /\ nextId' # nextId)
            => actions'[Len(actions')].layer = Len(layers) - 1]_vars

\* two layers were added in a row and the action committed next is on the
\* second of them
C20_Witness ==
    /\ event = "up"
    /\ Len(layers) = 4
    /\ currentLayer = 3
    /\ Len(actions) = 1
    /\ actions[1].layer = 3

====
